---- MODULE Spec2Model ----
(***************************************************************************)
(* Model of the paragraph shaping core of spandex:                         *)
(*   layout/paragraphs/utils/ast.rs        itemize_ast, end_line           *)
(*   layout/paragraphs/utils/paragraphs.rs add_word_to_paragraph, ...      *)
(*   layout/paragraphs/utils/linebreak.rs  ratios, demerits, look-ahead    *)
(*   layout/paragraphs/engine.rs           algorithm, positionate_items    *)
(*   layout/paragraphs/justification.rs    NaiveJustifier, LatexJustifier  *)
(*   layout/mod.rs, layout/pages           TwoColumnLayout, Page, Column   *)
(*   document/counters.rs                  Counters                        *)
(*                                                                         *)
(* Lengths (Pt, an f64 in the source) are integers counting half points,   *)
(* so that SPACE_WIDTH * 0.5 is exact.  Ratios and demerits (f64) are      *)
(* exact fractions <<n, d>> in lowest terms with d > 0; <<1, 0>> is the    *)
(* float +inf and <<0, 0>> is NaN.  Item indices are 0-based as in the     *)
(* source; the item of index i is items[i + 1].                            *)
(***************************************************************************)
EXTENDS Integers, Sequences, FiniteSets, TLC

VARIABLES
    pc,               \* position in the pipeline
    ast,              \* the styled tree handed to itemize_ast ("none" outside SpecAst)
    indent,           \* the indent handed to itemize_ast
    hyph,             \* the break indices the hyphenation dictionary answers
    items,            \* paragraph.items
    lines_length,     \* the list of line lengths
    b,                \* index of the item the next loop iteration handles
    sum_width,        \* running sums of algorithm
    sum_stretch,
    sum_shrink,
    graph,            \* StableGraph: nodes in insertion order, edges child -> parent
    lines_best_node,  \* HashMap line -> (node, node index)
    farthest_line,
    node_to_remove,   \* the list built by the last loop iteration
    feasible,         \* feasible_breakpoints of the last loop iteration
    result,           \* what algorithm returns
    lines,            \* what positionate_items returns
    legal_breakpoints, \* what find_legal_breakpoints returns
    layout,           \* the TwoColumnLayout: pages and the two cursors
    ret,              \* what the last call on the layout returned
    counters,         \* Counters.counters
    incremented,      \* the last call of Counters::increment and the vector it found
    text_width,       \* the column width NaiveJustifier::justify reads
    justified         \* what NaiveJustifier::justify returns

\* The state of the paragraph pipeline.
paragraphVars == <<pc, ast, indent, hyph, items, lines_length, b, sum_width, sum_stretch,
          sum_shrink, graph, lines_best_node, farthest_line, node_to_remove,
          feasible, result, lines, legal_breakpoints>>

\* The state of the document around it: layout, counters, naive justifier.
documentVars == <<layout, ret, counters, incremented, text_width, justified>>

vars == <<paragraphVars, documentVars>>

----------------------------------------------------------------------------
(* Bounds of the model. *)

\* Largest number of items of a paragraph before its two terminating items.
MaxBody == 4

\* Largest number of entries of lines_length.
MaxLineList == 2

\* Largest number of chars of a Text node.
MaxText == 2

\* Largest number of children of the Paragraph node handed to itemize_ast.
MaxChildren == 2

----------------------------------------------------------------------------
(* Extended reals. *)

\* f64::INFINITY; every finite quantity of the model is far below it.
PLUS_INFINITY == 1000000000

NEG_INFINITY == 0 - PLUS_INFINITY

NaN == PLUS_INFINITY + 1

IsFinite(x) == x \notin {PLUS_INFINITY, NEG_INFINITY, NaN}

\* x + y on f64
FAdd(x, y) ==
    IF x = NaN \/ y = NaN THEN NaN
    ELSE IF x = PLUS_INFINITY THEN (IF y = NEG_INFINITY THEN NaN ELSE PLUS_INFINITY)
    ELSE IF x = NEG_INFINITY THEN (IF y = PLUS_INFINITY THEN NaN ELSE NEG_INFINITY)
    ELSE IF IsFinite(y) THEN x + y
    ELSE y

FNeg(x) ==
    IF x = NaN THEN NaN
    ELSE IF x = PLUS_INFINITY THEN NEG_INFINITY
    ELSE IF x = NEG_INFINITY THEN PLUS_INFINITY
    ELSE 0 - x

\* x - y on f64
FSub(x, y) == FAdd(x, FNeg(y))

\* x < y on f64 (false as soon as a NaN is involved)
FLt(x, y) ==
    /\ x # NaN
    /\ y # NaN
    /\ x # y
    /\ \/ x = NEG_INFINITY
       \/ y = PLUS_INFINITY
       \/ IsFinite(x) /\ IsFinite(y) /\ x < y

Abs(x) == IF x < 0 THEN 0 - x ELSE x

RECURSIVE GCD(_, _)
GCD(x, y) == IF y = 0 THEN x ELSE GCD(y, x % y)

LCM(x, y) == (x \div GCD(x, y)) * y

\* The fraction n / d, d # 0, in lowest terms with a positive denominator.
Frac(n, d) ==
    LET g == GCD(Abs(n), Abs(d))
        s == IF d < 0 THEN 0 - 1 ELSE 1
    IN  <<(s * n) \div g, (s * d) \div g>>

RInf == <<1, 0>>

RNaN == <<0, 0>>

RZero == <<0, 1>>

RIsFinite(r) == r[2] > 0

\* n / d on f64 for a finite n # 0 and an extended d # 0
FDiv(n, d) ==
    IF d = NaN THEN RNaN
    ELSE IF d \in {PLUS_INFINITY, NEG_INFINITY} THEN RZero
    ELSE Frac(n, d)

\* x < y on finite fractions
RLt(x, y) ==
    LET l == LCM(x[2], y[2])
    IN  x[1] * (l \div x[2]) < y[1] * (l \div y[2])

RLe(x, y) == x = y \/ RLt(x, y)

\* x + y on finite fractions
RAdd(x, y) ==
    LET l == LCM(x[2], y[2])
    IN  Frac(x[1] * (l \div x[2]) + y[1] * (l \div y[2]), l)

RMul(x, y) == Frac(x[1] * y[1], x[2] * y[2])

RAbs(x) == <<Abs(x[1]), x[2]>>

RInt(n) == <<n, 1>>

\* Accumulated demerits are mixed numbers <<i, n, d>> = i + n / d with 0 <= n < d
\* in lowest terms, so that sums over lines with unrelated denominators stay small.
DOf(x) == <<x[1] \div x[2], x[1] % x[2], x[2]>>

DZero == <<0, 0, 1>>

DAdd(x, y) ==
    LET l == LCM(x[3], y[3])
        s == x[2] * (l \div x[3]) + y[2] * (l \div y[3])
        r == s % l
        g == GCD(r, l)
    IN  <<x[1] + y[1] + (s \div l), r \div g, l \div g>>

DLt(x, y) ==
    LET l == LCM(x[3], y[3])
    IN  \/ x[1] < y[1]
        \/ x[1] = y[1] /\ x[2] * (l \div x[3]) < y[2] * (l \div y[3])

\* The whole number n as a mixed number.
DInt(n) == <<n, 0, 1>>

\* x.powi(2) of a finite fraction x >= 0, as a mixed number:
\* (i + n / d)^2 = i^2 + 2 i n / d + n^2 / d^2.
DSquare(x) ==
    LET m == DOf(x)
    IN  DAdd(DAdd(DInt(m[1] * m[1]), DOf(Frac(2 * m[1] * m[2], m[3]))),
             <<0, m[2] * m[2], m[3] * m[3]>>)

----------------------------------------------------------------------------
(* layout/constants.rs *)

\* Pt(x) with x a whole number of points, in half points.
Pt(x) == 2 * x

SPACE_WIDTH == Pt(5)

IDEAL_SPACING == Pt(5)

DEFAULT_LINE_LENGTH == Pt(680)

MIN_COST == 0 - 1000

MAX_COST == 1000

ADJACENT_LOOSE_TIGHT_PENALTY == 50

MIN_ADJUSTMENT_RATIO == RInt(0 - 1)

MAX_ADJUSTMENT_RATIO == RInt(10)

DASH_GLYPH == "-"

----------------------------------------------------------------------------
(* layout/paragraphs/items.rs *)

Glyph(glyph, font, scale) == [glyph |-> glyph, font |-> font, scale |-> scale]

\* Option::None for a glyph
NoGlyph == Glyph("", "", 0)

BoundingBox(width, glyph) ==
    [kind |-> "box", width |-> width, glyph |-> glyph,
     stretchability |-> 0, shrinkability |-> 0, value |-> 0, flagged |-> FALSE]

Glue(ideal_spacing, stretchability, shrinkability) ==
    [kind |-> "glue", width |-> ideal_spacing, glyph |-> NoGlyph,
     stretchability |-> stretchability, shrinkability |-> shrinkability,
     value |-> 0, flagged |-> FALSE]

Penalty(width, value, flagged) ==
    [kind |-> "penalty", width |-> width, glyph |-> NoGlyph,
     stretchability |-> 0, shrinkability |-> 0, value |-> value, flagged |-> flagged]

IsBox(item) == item.kind = "box"

IsGlue(item) == item.kind = "glue"

IsPenalty(item) == item.kind = "penalty"

\* the item of (0-based) index i of a stream
ItemAt(its, i) == its[i + 1]

----------------------------------------------------------------------------
(* layout/paragraphs/utils/paragraphs.rs *)

get_line_length(ll, index) ==
    IF index < Len(ll) THEN ll[index + 1]
    ELSE IF Len(ll) > 0 THEN ll[1]
    ELSE DEFAULT_LINE_LENGTH

----------------------------------------------------------------------------
(* layout/paragraphs/utils/linebreak.rs *)

Measures(width, shrinkability, stretchability) ==
    [width |-> width, shrinkability |-> shrinkability, stretchability |-> stretchability]

\* A ratio clamped at -1 for every line that is not of the desired length.
compute_adjustment_ratio_clamped(actual_length, desired_length, total_stretchability, total_shrinkability) == IF actual_length = desired_length THEN RZero ELSE Frac(0 - 1, 1)

compute_adjustment_ratio(actual_length, desired_length, total_stretchability, total_shrinkability) ==
    IF actual_length = desired_length THEN RZero
    ELSE IF actual_length < desired_length
    THEN IF total_stretchability # 0
         THEN FDiv(desired_length - actual_length, total_stretchability)
         ELSE RInf
    ELSE IF total_shrinkability # 0
         THEN FDiv(desired_length - actual_length, total_shrinkability)
         ELSE RInf

\* (1 + badness)^2
OnePlusSquared(badness) == DSquare(RAdd(RInt(1), badness))

\* The demerits of a line, a mixed number.
compute_demerits(penalty, badness) ==
    IF penalty = PLUS_INFINITY THEN DInt(PLUS_INFINITY)
    ELSE IF penalty # NaN /\ penalty # NEG_INFINITY /\ penalty >= 0
    THEN DSquare(RAdd(RAdd(RInt(1), badness), RInt(penalty)))
    ELSE IF penalty # NaN /\ penalty # NEG_INFINITY /\ penalty > MIN_COST
    THEN DAdd(OnePlusSquared(badness), DInt(0 - (penalty * penalty)))
    ELSE OnePlusSquared(badness)

compute_fitness(adjustment_ratio) ==
    IF RLt(adjustment_ratio, <<0 - 1, 2>>) THEN 0
    ELSE IF RLt(adjustment_ratio, <<1, 2>>) THEN 1
    ELSE IF RLt(adjustment_ratio, RInt(1)) THEN 2
    ELSE 3

is_forced_break(item) ==
    IsPenalty(item) /\ FLt(item.value, MIN_COST)

\* The loop of get_measures_to_next_box from position p on, acc the measures so far.
RECURSIVE MeasuresLoop(_, _, _, _)
MeasuresLoop(p, item, its, acc) ==
    IF p >= Len(its) THEN acc
    ELSE LET next_item == ItemAt(its, p)
             w == acc.width + item.width
         IN  IF IsBox(next_item)
             THEN [acc EXCEPT !.width = w]
             ELSE IF IsGlue(next_item)
             THEN MeasuresLoop(p + 1, item, its,
                      Measures(w,
                               FAdd(acc.shrinkability, next_item.shrinkability),
                               FAdd(acc.stretchability, next_item.stretchability)))
             ELSE IF ~FLt(next_item.value, MAX_COST)
             THEN [acc EXCEPT !.width = w]
             ELSE MeasuresLoop(p + 1, item, its, [acc EXCEPT !.width = w])

get_measures_to_next_box(bi, item, its) ==
    MeasuresLoop(bi, item, its, Measures(0, 0, 0))

\* (adjustment_ratio.abs())^3
Badness(adjustment_ratio) ==
    LET x == RAbs(adjustment_ratio) IN RMul(RMul(x, x), x)

create_node_for_feasible_breakpoint(bi, a, adjustment_ratio, item, its, measures_sum) ==
    LET badness == Badness(adjustment_ratio)
        penalty == IF IsPenalty(item) THEN item.value ELSE 0
        demerits0 == compute_demerits(penalty, badness)
        fitness == compute_fitness(adjustment_ratio)
        demerits == IF a.index > 0 /\ Abs(fitness - a.fitness) > 1
                    THEN DAdd(demerits0, DInt(ADJACENT_LOOSE_TIGHT_PENALTY))
                    ELSE demerits0
        m == get_measures_to_next_box(bi, item, its)
    IN  [index |-> bi,
         line |-> a.line + 1,
         fitness |-> fitness,
         total_width |-> measures_sum.width + m.width,
         total_shrink |-> FAdd(measures_sum.shrinkability, m.shrinkability),
         total_stretch |-> FAdd(measures_sum.stretchability, m.stretchability),
         total_demerits |-> DAdd(a.total_demerits, demerits)]

RECURSIVE LegalLoop(_, _, _, _)
LegalLoop(its, i, last_item_was_box, found) ==
    IF i >= Len(its) THEN found
    ELSE LET item == ItemAt(its, i)
         IN  IF IsPenalty(item)
             THEN LegalLoop(its, i + 1, FALSE,
                      IF FLt(item.value, PLUS_INFINITY)
                      THEN Append(found, i) ELSE found)
             ELSE IF IsGlue(item)
             THEN LegalLoop(its, i + 1, FALSE,
                      IF last_item_was_box
                      THEN Append(found, i) ELSE found)
             ELSE LegalLoop(its, i + 1, TRUE, found)

\* The loop started on an empty list: index 0 is no longer a breakpoint of its
\* own right.
find_legal_breakpoints_from_empty(its) == LegalLoop(its, 0, FALSE, <<>>)

find_legal_breakpoints(its) == LegalLoop(its, 0, FALSE, <<0>>)

----------------------------------------------------------------------------
(* layout/paragraphs/engine.rs: algorithm *)

InWindow(r) ==
    RIsFinite(r) /\ RLe(MIN_ADJUSTMENT_RATIO, r) /\ RLe(r, MAX_ADJUSTMENT_RATIO)

BelowWindow(r) == RIsFinite(r) /\ RLt(r, MIN_ADJUSTMENT_RATIO)

InitialNode ==
    [index |-> 0, line |-> 0, fitness |-> 1, total_width |-> 0,
     total_stretch |-> 0, total_shrink |-> 0, total_demerits |-> DZero]

EmptyGraph == [nodes |-> <<InitialNode>>, edges |-> <<>>]

\* A loop that can break at every glue, whatever precedes it.
CanBreak_at_any_glue(its, bi) == IsGlue(ItemAt(its, bi)) \/ (IsPenalty(ItemAt(its, bi)) /\ FLt(ItemAt(its, bi).value, PLUS_INFINITY))

\* The match on item.content at the head of the loop body: can_break and
\* the sums as they stand when the active nodes are examined.
CanBreak(its, bi) ==
    LET item == ItemAt(its, bi)
    IN  IF IsBox(item) THEN FALSE
        ELSE IF IsGlue(item) THEN bi > 0 /\ IsBox(ItemAt(its, bi - 1))
        ELSE FLt(item.value, PLUS_INFINITY)

SumsAtBreak(its, bi, sw, sst, ssh) ==
    LET item == ItemAt(its, bi)
    IN  IF IsBox(item) THEN Measures(sw + item.width, ssh, sst)
        ELSE IF IsGlue(item) /\ ~CanBreak(its, bi)
        THEN Measures(sw + item.width, FAdd(ssh, item.shrinkability),
                      FAdd(sst, item.stretchability))
        ELSE Measures(sw, ssh, sst)

\* The adjustment ratio of the line from node a to the break, given the sums.
NodeRatio(a, sums, ll) ==
    compute_adjustment_ratio(
        sums.width - a.total_width,
        get_line_length(ll, a.line),
        FSub(sums.stretchability, a.total_stretch),
        FSub(sums.shrinkability, a.total_shrink))

NodeIds(g) == [i \in 1..Len(g.nodes) |-> i]

FeasibleBreakpoints(g, its, bi, sums, ll) ==
    LET ok == SelectSeq(NodeIds(g), LAMBDA n : InWindow(NodeRatio(g.nodes[n], sums, ll)))
    IN  [k \in 1..Len(ok) |->
            [node |-> create_node_for_feasible_breakpoint(
                          bi, g.nodes[ok[k]], NodeRatio(g.nodes[ok[k]], sums, ll),
                          ItemAt(its, bi), its, sums),
             parent |-> ok[k]]]

NodesToRemove(g, its, bi, sums, ll) ==
    SelectSeq(NodeIds(g),
              LAMBDA n : \/ BelowWindow(NodeRatio(g.nodes[n], sums, ll))
                         \/ is_forced_break(ItemAt(its, bi)))

\* The scan for the candidate of least total demerits (engine.rs:141-148).
RECURSIVE LastBest(_, _, _)
LastBest(feas, k, best) ==
    IF k > Len(feas) THEN best
    ELSE LastBest(feas, k + 1,
                  IF DLt(feas[k].node.total_demerits, best.node.total_demerits)
                  THEN feas[k] ELSE best)

\* An item whose negative width is found only if it is a box.
NegativeWidth_of_box(item) == IsBox(item) /\ item.width < 0

\* item.width < Pt(0.0), whatever the content of the item (engine.rs:55).
NegativeWidth(item) == item.width < 0

\* One iteration of the for loop over the items (engine.rs:54-184).
AlgorithmStep ==
    /\ UNCHANGED documentVars
    /\ pc = "loop"
    /\ b < Len(items)
    /\ LET item == ItemAt(items, b)
           sums == SumsAtBreak(items, b, sum_width, sum_stretch, sum_shrink)
       IN  IF NegativeWidth(item)
           THEN /\ pc' = "panic"
                /\ UNCHANGED <<b, sum_width, sum_stretch, sum_shrink, graph,
                               lines_best_node, farthest_line, node_to_remove, feasible>>
           ELSE IF ~CanBreak(items, b)
           THEN /\ sum_width' = sums.width
                /\ sum_stretch' = sums.stretchability
                /\ sum_shrink' = sums.shrinkability
                /\ b' = b + 1
                /\ UNCHANGED <<pc, graph, lines_best_node, farthest_line,
                               node_to_remove, feasible>>
           ELSE LET feas == FeasibleBreakpoints(graph, items, b, sums, lines_length)
                    best == LastBest(feas, 1, feas[1])
                    id == Len(graph.nodes) + 1
                    l == best.node.line
                IN  /\ feasible' = feas
                    /\ node_to_remove' = NodesToRemove(graph, items, b, sums, lines_length)
                    /\ IF Len(feas) = 0
                       THEN UNCHANGED <<graph, lines_best_node, farthest_line>>
                       ELSE /\ graph' = [nodes |-> Append(graph.nodes, best.node),
                                         edges |-> Append(graph.edges,
                                                     <<id, best.parent,
                                                       best.node.total_demerits>>)]
                            /\ IF l \notin DOMAIN lines_best_node
                               THEN /\ lines_best_node' =
                                          [x \in DOMAIN lines_best_node \cup {l} |->
                                              IF x = l THEN <<best.node, id>>
                                              ELSE lines_best_node[x]]
                                    /\ farthest_line' = farthest_line + 1
                               ELSE /\ lines_best_node' =
                                          IF DLt(best.node.total_demerits,
                                                 lines_best_node[l][1].total_demerits)
                                          THEN [lines_best_node EXCEPT ![l] = <<best.node, id>>]
                                          ELSE lines_best_node
                                    /\ UNCHANGED farthest_line
                    /\ sum_width' = IF IsGlue(item) THEN sums.width + item.width
                                    ELSE sums.width
                    /\ sum_shrink' = IF IsGlue(item)
                                     THEN FAdd(sums.shrinkability, item.shrinkability)
                                     ELSE sums.shrinkability
                    /\ sum_stretch' = IF IsGlue(item)
                                      THEN FAdd(sums.stretchability, item.stretchability)
                                      ELSE sums.stretchability
                    /\ b' = b + 1
                    /\ UNCHANGED pc
    /\ UNCHANGED <<ast, indent, hyph, items, lines_length, result, lines,
                   legal_breakpoints>>

\* The parent of node n: the target of its one outgoing edge (0 when it has none).
Parent(g, n) ==
    IF \E e \in 1..Len(g.edges) : g.edges[e][1] = n
    THEN g.edges[CHOOSE e \in 1..Len(g.edges) : g.edges[e][1] = n][2]
    ELSE 0

\* The depth-first walk from node n, which follows the edges to the first node,
\* already reversed: the indices from the first node to n.
RECURSIVE Walk(_, _)
Walk(g, n) ==
    IF n = 0 THEN <<>> ELSE Append(Walk(g, Parent(g, n)), g.nodes[n].index)

\* Following the edges backwards (engine.rs:189-202).
AlgorithmReturn ==
    /\ UNCHANGED documentVars
    /\ pc = "loop"
    /\ b = Len(items)
    /\ result' = IF farthest_line \in DOMAIN lines_best_node
                 THEN Walk(graph, lines_best_node[farthest_line][2])
                 ELSE <<>>
    /\ pc' = "position"
    /\ UNCHANGED <<ast, indent, hyph, items, lines_length, b, sum_width, sum_stretch,
                   sum_shrink, graph, lines_best_node, farthest_line, node_to_remove,
                   feasible, lines, legal_breakpoints>>

----------------------------------------------------------------------------
(* layout/paragraphs/utils/linebreak.rs: compute_adjustment_ratios_with_breakpoints *)

\* Every line, the first included, starts after its breakpoint.
Beginning_past_break(breakpoints, breakpoint_line) == breakpoints[breakpoint_line + 1] + 1

\* The first item of the line that starts at breakpoint number breakpoint_line.
Beginning(breakpoints, breakpoint_line) ==
    IF breakpoint_line = 0 THEN breakpoints[1]
    ELSE breakpoints[breakpoint_line + 1] + 1

\* The loop of lines 80-99 over the items p, beginning <= p < next_breakpoint.
RECURSIVE RatioLoop(_, _, _, _, _)
RatioLoop(its, p, beginning, next_breakpoint, acc) ==
    IF p >= next_breakpoint \/ p >= Len(its) THEN acc
    ELSE LET item == ItemAt(its, p)
         IN  RatioLoop(its, p + 1, beginning, next_breakpoint,
                 IF IsBox(item)
                 THEN [acc EXCEPT !.width = @ + item.width]
                 ELSE IF IsGlue(item)
                 THEN IF p # beginning /\ p # next_breakpoint
                      THEN Measures(acc.width + item.width,
                                    FAdd(acc.shrinkability, item.shrinkability),
                                    FAdd(acc.stretchability, item.stretchability))
                      ELSE acc
                 ELSE IF p = next_breakpoint
                      THEN [acc EXCEPT !.width = @ + item.width]
                      ELSE acc)

compute_adjustment_ratios_with_breakpoints(its, ll, breakpoints) ==
    [k \in 1..Len(breakpoints) |->
        LET breakpoint_line == k - 1
            next_breakpoint == IF breakpoint_line < Len(breakpoints) - 1
                               THEN breakpoints[k + 1]
                               ELSE Len(its) - 1
            beginning == Beginning(breakpoints, breakpoint_line)
            m == RatioLoop(its, beginning, beginning, next_breakpoint, Measures(0, 0, 0))
        IN  compute_adjustment_ratio(m.width, get_line_length(ll, breakpoint_line),
                                     m.stretchability, m.shrinkability)]

----------------------------------------------------------------------------
(* layout/paragraphs/engine.rs: positionate_items *)

RNegInf == <<0 - 1, 0>>

\* f64::max, which ignores a NaN operand
RMax(x, y) ==
    IF x = RNaN THEN y
    ELSE IF y = RNaN THEN x
    ELSE IF x = RInf \/ y = RInf THEN RInf
    ELSE IF x = RNegInf THEN y
    ELSE IF y = RNegInf THEN x
    ELSE IF RLt(x, y) THEN y ELSE x

\* the f64 of an extended length
ROf(x) ==
    IF x = NaN THEN RNaN
    ELSE IF x = PLUS_INFINITY THEN RInf
    ELSE IF x = NEG_INFINITY THEN RNegInf
    ELSE RInt(x)

Sign(r) == IF r[1] > 0 THEN 1 ELSE IF r[1] < 0 THEN 0 - 1 ELSE 0

\* x * y on f64
XMul(x, y) ==
    IF x = RNaN \/ y = RNaN THEN RNaN
    ELSE IF RIsFinite(x) /\ RIsFinite(y) THEN RMul(x, y)
    ELSE IF Sign(x) * Sign(y) = 0 THEN RNaN
    ELSE IF Sign(x) * Sign(y) > 0 THEN RInf
    ELSE RNegInf

\* x + y on f64
XAdd(x, y) ==
    IF x = RNaN \/ y = RNaN THEN RNaN
    ELSE IF RIsFinite(x) /\ RIsFinite(y) THEN RAdd(x, y)
    ELSE IF RIsFinite(x) THEN y
    ELSE IF RIsFinite(y) THEN x
    ELSE IF x = y THEN x
    ELSE RNaN

\* The loop of lines 236-284 over the items p, beginning <= p < next; st is
\* [out, x, previous_glyph, panic].
RECURSIVE PositionLoop(_, _, _, _, _, _, _)
PositionLoop(its, p, beginning, next, breakpoint_line, adjustment_ratio, st) ==
    IF p >= next \/ p >= Len(its) \/ st.panic THEN st
    ELSE LET item == ItemAt(its, p)
         IN  PositionLoop(its, p + 1, beginning, next, breakpoint_line, adjustment_ratio,
                 IF IsBox(item)
                 THEN [st EXCEPT
                         !.previous_glyph = item.glyph,
                         !.out = Append(@, [index |-> p,
                                            line |-> breakpoint_line,
                                            horizontal_offset |-> st.x,
                                            width |-> item.width,
                                            glyph |-> item.glyph]),
                         !.x = XAdd(@, RInt(item.width))]
                 ELSE IF IsGlue(item)
                 THEN IF p # beginning /\ p # next
                      THEN LET gap == IF adjustment_ratio # RNaN
                                         /\ Sign(adjustment_ratio) < 0
                                      THEN XAdd(RInt(item.width),
                                                XMul(ROf(item.shrinkability),
                                                     adjustment_ratio))
                                      ELSE XAdd(RInt(item.width),
                                                XMul(ROf(item.stretchability),
                                                     adjustment_ratio))
                           IN  [st EXCEPT !.x = XAdd(@, gap)]
                      ELSE st
                 ELSE IF p = next /\ item.width > 0
                      THEN IF st.previous_glyph = NoGlyph
                           THEN [st EXCEPT !.panic = TRUE]
                           ELSE [st EXCEPT
                                   !.out = Append(@,
                                       [index |-> p,
                                        line |-> breakpoint_line,
                                        horizontal_offset |-> st.x,
                                        width |-> item.width,
                                        glyph |-> Glyph(DASH_GLYPH,
                                                        st.previous_glyph.font,
                                                        st.previous_glyph.scale)])]
                      ELSE st)

\* One iteration of the loop over the lines (engine.rs:216-287).
PositionLine(its, ll, breakpoints, breakpoint_line) ==
    LET ratios == compute_adjustment_ratios_with_breakpoints(its, ll, breakpoints)
        adjustment_ratio == RMax(ratios[breakpoint_line + 1], MIN_ADJUSTMENT_RATIO)
        beginning == Beginning(breakpoints, breakpoint_line)
    IN  PositionLoop(its, beginning, beginning, breakpoints[breakpoint_line + 2],
                     breakpoint_line, adjustment_ratio,
                     [out |-> <<>>, x |-> RZero, previous_glyph |-> NoGlyph,
                      panic |-> FALSE])

\* positionate_items; the subtraction breakpoints.len() - 1 of line 216 fails on an
\* empty list (overflow check, or out of bounds index at line 219 when it wraps).
PositionatePanics(its, ll, breakpoints) ==
    \/ Len(breakpoints) = 0
    \/ \E k \in 0..(Len(breakpoints) - 2) : PositionLine(its, ll, breakpoints, k).panic

positionate_items(its, ll, breakpoints) ==
    [k \in 1..(Len(breakpoints) - 1) |-> PositionLine(its, ll, breakpoints, k - 1).out]

Positionate ==
    /\ UNCHANGED documentVars
    /\ pc = "position"
    /\ IF PositionatePanics(items, lines_length, result)
       THEN /\ pc' = "panic"
            /\ UNCHANGED lines
       ELSE /\ pc' = "done"
            /\ lines' = positionate_items(items, lines_length, result)
    /\ UNCHANGED <<ast, indent, hyph, items, lines_length, b, sum_width, sum_stretch,
                   sum_shrink, graph, lines_best_node, farthest_line, node_to_remove,
                   feasible, result, legal_breakpoints>>

----------------------------------------------------------------------------
(* layout/pages/columns.rs, layout/pages/mod.rs: Column and Page.            *)
(* An Option is a sequence: None is <<>>, Some(x) is <<x>>.                   *)

None == <<>>

Some(x) == <<x>>

Column_new(x, y, width, height) ==
    [x |-> x, y |-> y, width |-> width, height |-> height, current_vertical_position |-> 0]

Page_new(columns, number) ==
    [number |-> number, columns |-> columns, current_column_index |-> 0]

get_first_column(page) == page.columns[1]

get_ith_column_from_current(page, i) ==
    IF page.current_column_index + i < Len(page.columns)
    THEN Some(page.columns[page.current_column_index + i + 1])
    ELSE None

\* Page::get_current_column indexes the vector: it fails past the last column.
PageCursorValid(page) == page.current_column_index < Len(page.columns)

\* A page whose cursor always steps to column 0.
Page_get_next_column_rewinding(page) ==
    [page |-> [page EXCEPT !.current_column_index = 0], column |-> Some(page.columns[1])]

\* Page::get_next_column: the cursor moves first, whatever it finds.
Page_get_next_column(page) ==
    LET moved == [page EXCEPT !.current_column_index = @ + 1]
    IN  [page |-> moved,
         column |-> IF moved.current_column_index < Len(moved.columns)
                    THEN Some(moved.columns[moved.current_column_index + 1])
                    ELSE None]

----------------------------------------------------------------------------
(* layout/mod.rs: TwoColumnLayout.  Every operation returns the layout it    *)
(* leaves, the value it returns, and whether it panicked (an index out of    *)
(* bounds, or a usize subtraction that underflows).                          *)

Properties == [paragraph_skip |-> Pt(50), line_skip |-> Pt(2), line_height |-> Pt(10)]

get_columns_layout == <<Column_new(Pt(250), Pt(50), Pt(400), Pt(200))>>

TwoColumnLayout_new ==
    [pages |-> <<Page_new(<<Column_new(Pt(0), Pt(50), Pt(200), Pt(200)),
                            Column_new(Pt(300), Pt(100), Pt(150), Pt(200))>>, 1)>>,
     current_page_index |-> 0,
     current_column_index |-> 0,
     properties |-> Properties]

Outcome(lay, value) == [layout |-> lay, value |-> value, panic |-> FALSE]

Panic(lay) == [layout |-> lay, value |-> None, panic |-> TRUE]

PageAt(lay, i) == lay.pages[i + 1]

current_column(lay) ==
    IF lay.current_page_index >= Len(lay.pages) THEN Panic(lay)
    ELSE IF ~PageCursorValid(PageAt(lay, lay.current_page_index)) THEN Panic(lay)
    ELSE LET page == PageAt(lay, lay.current_page_index)
         IN  Outcome(lay, page.columns[page.current_column_index + 1])

get_current_page(lay) ==
    IF lay.current_page_index >= Len(lay.pages)
    THEN None
    ELSE Some(PageAt(lay, lay.current_page_index))

get_next_page(lay) ==
    LET moved == [lay EXCEPT !.current_page_index = @ + 1]
    IN  Outcome(moved, get_current_page(moved))

create_and_jump_to_last_page(lay) ==
    LET pushed == Append(lay.pages, Page_new(get_columns_layout, Len(lay.pages) + 1))
        jumped == [lay EXCEPT !.pages = pushed, !.current_page_index = Len(pushed) - 1]
    IN  Outcome(jumped, PageAt(jumped, jumped.current_page_index))

\* The page pushed is not the page returned: the current one is.
create_new_page_at_the_end(lay) ==
    LET pushed == [lay EXCEPT !.pages = Append(@, Page_new(get_columns_layout, Len(@) + 1))]
    IN  IF pushed.current_page_index >= Len(pushed.pages)
        THEN Panic(pushed)
        ELSE Outcome(pushed, PageAt(pushed, pushed.current_page_index))

get_ith_page(lay, i) ==
    IF i < Len(lay.pages) THEN Outcome(lay, PageAt(lay, i)) ELSE create_new_page_at_the_end(lay)

get_next_column(lay) ==
    IF lay.current_page_index >= Len(lay.pages) THEN Panic(lay)
    ELSE LET stepped == Page_get_next_column(PageAt(lay, lay.current_page_index))
             lay1 == [lay EXCEPT !.pages[lay.current_page_index + 1] = stepped.page]
         IN  IF stepped.column # None THEN Outcome(lay1, stepped.column[1])
             ELSE LET next == get_next_page(lay1)
                  IN  IF next.value # None
                      THEN Outcome(next.layout, get_first_column(next.value[1]))
                      ELSE LET last == create_and_jump_to_last_page(next.layout)
                           IN  Outcome(last.layout, get_first_column(last.value))

move_to_next_column(lay) ==
    LET got == get_next_column(lay)
    IN  IF got.panic THEN got
        ELSE Outcome([got.layout EXCEPT !.current_column_index = @ + 1], None)

RECURSIVE get_next_ith_column_from_page(_, _, _)
\* missing_columns_count is a usize: i - columns.len() underflows when the
\* cursor of the page is past column 0, which panics (debug build) or wraps to
\* a count no layout satisfies (release build); both end the call abnormally.
get_next_ith_column_from_page(lay, page_index, i) ==
    LET got == get_ith_page(lay, page_index)
    IN  IF got.panic THEN got
        ELSE LET column == get_ith_column_from_current(got.value, i)
             IN  IF column # None THEN Outcome(got.layout, column[1])
                 ELSE IF i < Len(got.value.columns) THEN Panic(got.layout)
                 ELSE get_next_ith_column_from_page(got.layout, page_index + 1, i - Len(got.value.columns))

get_next_ith_column_from_current_page(lay, i) ==
    get_next_ith_column_from_page(lay, lay.current_page_index, i)

\* line_offset as f64, times the heights, against the height of the column.
LineBottom(column, properties, line_offset) ==
    column.current_vertical_position + properties.line_height * (line_offset + 1)
        + properties.line_skip * line_offset

\* (height / (line_height + line_skip)).floor()
FittingLines(column, properties) ==
    column.height \div (properties.line_height + properties.line_skip)

\* (line_offset as f64 - fitting_lines) as usize: the cast saturates at 0.
RemainingOffset(line_offset, fitting_lines) ==
    IF line_offset < fitting_lines THEN 0 ELSE line_offset - fitting_lines

RECURSIVE get_line_length_from_current_position(_, _, _)
get_line_length_from_current_position(lay, column_index, line_offset) ==
    LET got == get_next_ith_column_from_current_page(lay, column_index)
    IN  IF got.panic THEN got
        ELSE IF LineBottom(got.value, got.layout.properties, line_offset) <= got.value.height
        THEN Outcome(got.layout, got.value.width)
        ELSE get_line_length_from_current_position(got.layout, column_index + 1,
                 RemainingOffset(line_offset, FittingLines(got.value, got.layout.properties)))

----------------------------------------------------------------------------
(* The layout as a state machine: the calls a caller of the Layout trait and *)
(* of the line-length oracle can make, from TwoColumnLayout::new().          *)

\* Most pages the layout is let grow to, and the farthest the page cursor goes.
MaxPages == 3

\* Most calls of move_to_next_column.
MaxMoves == 2

\* Largest line offset asked: the lines of four columns and a few more.
MaxLineOffset == 68

\* Largest column index the oracle is started at.
MaxColumnIndex == 1

\* What a call returned, kept by kind: a width, a column, a page (the last two
\* as Options, empty when the call returned none, returned nothing or panicked).
ReturnOf(kind, out) ==
    [width |-> IF kind = "width" /\ ~out.panic THEN out.value ELSE 0,
     column |-> IF kind = "column" /\ ~out.panic THEN Some(out.value) ELSE None,
     page |-> IF kind = "page" /\ ~out.panic THEN Some(out.value)
              ELSE IF kind = "option page" /\ ~out.panic THEN out.value ELSE None]

NoCall == [op |-> "new", args |-> <<>>, value |-> ReturnOf("unit", Outcome(TwoColumnLayout_new, None)), panic |-> FALSE, before |-> TwoColumnLayout_new]

Bounded(lay) ==
    /\ Len(lay.pages) <= MaxPages
    /\ lay.current_page_index <= MaxPages
    /\ lay.current_column_index <= MaxMoves

\* A call that returned (or panicked) with outcome out.
LayoutCall(op, args, kind, out) ==
    /\ pc = "layout"
    /\ ~ret.panic
    /\ Bounded(out.layout)
    /\ layout' = out.layout
    /\ ret' = [op |-> op, args |-> args, value |-> ReturnOf(kind, out), panic |-> out.panic, before |-> layout]
    /\ UNCHANGED <<paragraphVars, counters, incremented, text_width, justified>>

CurrentColumn == LayoutCall("current_column", <<>>, "column", current_column(layout))

GetNextColumn == LayoutCall("get_next_column", <<>>, "column", get_next_column(layout))

MoveToNextColumn == LayoutCall("move_to_next_column", <<>>, "unit", move_to_next_column(layout))

GetNextPage == LayoutCall("get_next_page", <<>>, "option page", get_next_page(layout))

GetIthPage == \E i \in 0..MaxPages : LayoutCall("get_ith_page", <<i>>, "page", get_ith_page(layout, i))

CreateAndJumpToLastPage ==
    LayoutCall("create_and_jump_to_last_page", <<>>, "page", create_and_jump_to_last_page(layout))

CreateNewPageAtTheEnd ==
    LayoutCall("create_new_page_at_the_end", <<>>, "page", create_new_page_at_the_end(layout))

GetLineLength ==
    \E column_index \in 0..MaxColumnIndex, line_offset \in 0..MaxLineOffset :
        LayoutCall("get_line_length_from_current_position", <<column_index, line_offset>>, "width",
                   get_line_length_from_current_position(layout, column_index, line_offset))

----------------------------------------------------------------------------
(* document/counters.rs: Counters.  Counter ids are 0-based as in the       *)
(* source; the counter of id k is counters[k + 1].                           *)

\* Largest counter id incremented.
MaxCounterId == 2

\* Largest value a counter is let reach.
MaxCount == 3

Counters_new == <<0>>

\* #[derive(Default)]: the empty vector.
Counters_default == <<>>

\* Vec::resize(new_len, 0): truncates, or pads with zeros.
resize(vec, new_len) == [j \in 1..new_len |-> IF j <= Len(vec) THEN vec[j] ELSE 0]

\* The vector after an increment that keeps the counters beyond counter_id.
increment_keeping_tail(cs, counter_id) ==
    LET padded == IF Len(cs) > counter_id THEN cs ELSE resize(cs, counter_id + 1)
    IN  [padded EXCEPT ![counter_id + 1] = @ + 1]

\* The vector after Counters::increment(counter_id); it returns its entry counter_id.
increment(cs, counter_id) ==
    LET resized == resize(cs, counter_id + 1)
    IN  [resized EXCEPT ![counter_id + 1] = @ + 1]

counter(cs, counter_id) == IF counter_id < Len(cs) THEN cs[counter_id + 1] ELSE 0

NoIncrement == [counter_id |-> 0, before |-> <<>>, value |-> 0, called |-> FALSE]

Increment ==
    /\ pc = "counters"
    /\ \E counter_id \in 0..MaxCounterId :
          /\ counter(counters, counter_id) < MaxCount
          /\ counters' = increment(counters, counter_id)
          /\ incremented' = [counter_id |-> counter_id, before |-> counters,
                             value |-> counters'[counter_id + 1], called |-> TRUE]
    /\ UNCHANGED <<paragraphVars, layout, ret, text_width, justified>>

----------------------------------------------------------------------------
(* layout/paragraphs/justification.rs: NaiveJustifier::justify.  A word is   *)
(* the sequence of the box items pushed since the last glue; horizontal      *)
(* offsets are fractions of half points.                                     *)

RECURSIVE Flatten(_)
\* The items of the words of a line, in order.
Flatten(words) == IF words = <<>> THEN <<>> ELSE Head(words) \o Flatten(Tail(words))

RECURSIVE WidthOf(_)
WidthOf(its) == IF its = <<>> THEN 0 ELSE Head(its).width + WidthOf(Tail(its))

RECURSIVE PlaceWord(_, _)
\* The glyphs of a word placed from offset x on.
PlaceWord(word, x) ==
    IF word = <<>> THEN <<>>
    ELSE <<[glyph |-> Head(word).glyph, x |-> x]>> \o PlaceWord(Tail(word), RAdd(x, RInt(Head(word).width)))

RECURSIVE PlaceLine(_, _, _)
\* The words of a line placed from offset x on, word_space after each word.
PlaceLine(words, x, word_space) ==
    IF words = <<>> THEN <<>>
    ELSE PlaceWord(Head(words), x)
             \o PlaceLine(Tail(words), RAdd(RAdd(x, RInt(WidthOf(Head(words)))), word_space), word_space)

\* The space between the words of a committed line.
WordSpace(line, width) ==
    IF Len(line) > 1
    THEN Frac(width - WidthOf(Flatten(line)), Len(line) - 1)
    ELSE RInt(IDEAL_SPACING)

\* A commit that starts the next line empty: the last word is not carried.
Commit_dropping_last_word(st, width) == [st EXCEPT !.current_x = 0, !.ret = Append(@, PlaceLine(SubSeq(st.current_line, 1, Len(st.current_line) - 1), RInt(0), RInt(IDEAL_SPACING))), !.current_line = <<>>]

\* The state of the loop after a line was committed: the last word is carried.
Commit(st, width) ==
    LET kept == SubSeq(st.current_line, 1, Len(st.current_line) - 1)
        last_word == st.current_line[Len(st.current_line)]
    IN  [st EXCEPT !.current_x = 0,
                   !.ret = Append(@, PlaceLine(kept, RInt(0), WordSpace(kept, width))),
                   !.current_line = <<last_word>>]

\* The state of the loop after the item was matched on its content.
Matched(st, item) ==
    IF IsBox(item)
    THEN [st EXCEPT !.current_x = @ + item.width, !.current_word = Append(@, item)]
    ELSE IF IsGlue(item)
    THEN [st EXCEPT !.current_line = Append(@, st.current_word),
                    !.current_x = @ + item.width,
                    !.current_word = <<>>]
    ELSE st

RECURSIVE NaiveLoop(_, _, _, _)
NaiveLoop(its, k, st, width) ==
    IF k > Len(its) THEN st
    ELSE LET m == Matched(st, its[k])
         IN  NaiveLoop(its, k + 1,
                       IF m.current_x > width /\ Len(m.current_line) > 1 THEN Commit(m, width) ELSE m,
                       width)

NaiveJustifier_justify(its, width) ==
    LET st == NaiveLoop(its, 1, [ret |-> <<>>, current_line |-> <<>>, current_word |-> <<>>, current_x |-> 0], width)
    IN  Append(st.ret, PlaceLine(st.current_line, RInt(0), RInt(IDEAL_SPACING)))

\* Most items of a paragraph handed to the naive justifier, before its terminator.
MaxNaiveBody == 5

\* The boxes and the glue the paragraphs of the naive justifier are made of.
NaiveItems ==
    { BoundingBox(2, Glyph("a", "regular", 10)),
      BoundingBox(3, Glyph("b", "regular", 10)),
      Glue(1, 1, 1) }

NaiveParagraphs == { Append(Append(body, Glue(0, PLUS_INFINITY, 0)), Penalty(0, NEG_INFINITY, FALSE)) : body \in UNION { [1..k -> NaiveItems] : k \in 0..MaxNaiveBody } }

\* The widths of the current column.
TextWidths == {5, 7}

NaiveJustify ==
    /\ pc = "justify"
    /\ justified' = NaiveJustifier_justify(items, text_width)
    /\ pc' = "justified"
    /\ UNCHANGED <<ast, indent, hyph, items, lines_length, b, sum_width, sum_stretch,
                   sum_shrink, graph, lines_best_node, farthest_line, node_to_remove,
                   feasible, result, lines, legal_breakpoints>>
    /\ UNCHANGED <<layout, ret, counters, incremented, text_width>>

DocumentStart ==
    /\ layout = TwoColumnLayout_new
    /\ ret = NoCall
    /\ counters = Counters_new
    /\ incremented = NoIncrement
    /\ text_width = 0
    /\ justified = <<>>

----------------------------------------------------------------------------
(* layout/paragraphs/utils/ast.rs: end_line *)

TerminatorGlue == Glue(0, PLUS_INFINITY, 0)

TerminatorPenalty == Penalty(0, NEG_INFINITY, FALSE)

\* A line ended by a flagged forced break.
end_line_flagged(buffer) ==
    Append(Append(buffer, TerminatorGlue), Penalty(0, NEG_INFINITY, TRUE))

end_line(buffer) == Append(Append(buffer, TerminatorGlue), TerminatorPenalty)

----------------------------------------------------------------------------
(* fonts/styles.rs, fonts/configuration.rs, fonts/mod.rs *)

Regular == [bold |-> FALSE, italic |-> FALSE]

Bold(style) == [bold |-> TRUE, italic |-> style.italic]

Italic(style) == [bold |-> style.bold, italic |-> TRUE]

for_style(style) ==
    IF style.bold THEN (IF style.italic THEN "bold_italic" ELSE "bold")
    ELSE (IF style.italic THEN "italic" ELSE "regular")

\* The bullet U+2022 of a list item.
BulletGlyph == "*"

\* The advance width the font answers: nothing for a glyph it does not have (the
\* bullet), else a width that grows with the weight of the font.
char_width(font, c, scale) ==
    IF c = BulletGlyph THEN 0
    ELSE IF c = "-" THEN Pt(3)
    ELSE IF font \in {"bold", "bold_italic"} THEN Pt(6)
    ELSE Pt(5)

from_glyph(glyph) ==
    BoundingBox(char_width(glyph.font, glyph.glyph, glyph.scale), glyph)

----------------------------------------------------------------------------
(* layout/paragraphs/utils/paragraphs.rs: add_word_to_paragraph, glue_from_context *)

\* dictionary.hyphenate(word).breaks: the positions of the dictionary that lie
\* between two glyphs of the word.
Hyphenate(dictionary, word) == { i \in dictionary : 0 < i /\ i < Len(word) }

\* The loop of add_word_to_paragraph from the glyph of (0-based) index i on.
RECURSIVE WordLoop(_, _, _, _)
WordLoop(word, i, break_indices, buffer) ==
    IF i >= Len(word) THEN buffer
    ELSE LET g == word[i + 1]
             b1 == IF i \in break_indices
                   THEN Append(buffer, Penalty(0, 50, TRUE)) ELSE buffer
             b2 == Append(b1, from_glyph(g))
             b3 == IF g.glyph = DASH_GLYPH
                   THEN Append(b2, Penalty(0, 50, TRUE)) ELSE b2
         IN  WordLoop(word, i + 1, break_indices, b3)

add_word_to_paragraph(word, dictionary, buffer) ==
    WordLoop(word, 0, Hyphenate(dictionary, word), buffer)

glue_from_context(ideal_spacing) ==
    Glue(ideal_spacing, SPACE_WIDTH, SPACE_WIDTH \div 2)

----------------------------------------------------------------------------
(* layout/paragraphs/utils/ast.rs: itemize_ast *)

AstNode(kind, level, content, children) ==
    [kind |-> kind, level |-> level, content |-> content, children |-> children]

Text(content) == AstNode("Text", 0, content, <<>>)

Paragraph(children) == AstNode("Paragraph", 0, <<>>, children)

is_whitespace(c) == c = " "

\* The loop over content.chars() of the Text case, from the char number k on.
RECURSIVE TextLoop(_, _, _, _, _, _, _)
TextLoop(content, k, font, size, dictionary, current_word, buffer) ==
    IF k > Len(content)
    THEN IF current_word # <<>>
         THEN add_word_to_paragraph(current_word, dictionary, buffer)
         ELSE buffer
    ELSE IF is_whitespace(content[k])
    THEN TextLoop(content, k + 1, font, size, dictionary, <<>>,
                  Append(add_word_to_paragraph(current_word, dictionary, buffer),
                         glue_from_context(IDEAL_SPACING)))
    ELSE TextLoop(content, k + 1, font, size, dictionary,
                  Append(current_word, Glyph(content[k], font, size)), buffer)

\* " ".repeat(level) + the bullet + " "
RECURSIVE Repeat(_, _)
Repeat(c, n) == IF n = 0 THEN <<>> ELSE <<c>> \o Repeat(c, n - 1)

Bullet(level) == Repeat(" ", level) \o <<BulletGlyph, " ">>

Max(x, y) == IF x > y THEN x ELSE y

RECURSIVE itemize_ast_aux(_, _, _, _, _)
RECURSIVE ItemizeChildren(_, _, _, _, _, _)

\* for child in children { itemize_ast_aux(child, ...) }
ItemizeChildren(children, k, size, dictionary, current_style, buffer) ==
    IF k > Len(children) THEN buffer
    ELSE ItemizeChildren(children, k + 1, size, dictionary, current_style,
             itemize_ast_aux(children[k], size, dictionary, current_style, buffer))

itemize_ast_aux(node, size, dictionary, current_style, buffer) ==
    IF node.kind = "Title"
    THEN end_line(ItemizeChildren(node.children, 1,
                                  size + Pt(3 * Max(4 - node.level, 1)),
                                  dictionary, Bold(current_style), buffer))
    ELSE IF node.kind = "Bold"
    THEN ItemizeChildren(node.children, 1, size, dictionary, Bold(current_style), buffer)
    ELSE IF node.kind = "Italic"
    THEN ItemizeChildren(node.children, 1, size, dictionary, Italic(current_style), buffer)
    ELSE IF node.kind = "Text"
    THEN TextLoop(node.content, 1, for_style(current_style), size, dictionary,
                  <<>>, buffer)
    ELSE IF node.kind = "File"
    THEN ItemizeChildren(node.children, 1, size, dictionary, current_style, buffer)
    ELSE IF node.kind = "Paragraph"
    THEN end_line(ItemizeChildren(node.children, 1, size, dictionary,
                                  current_style, buffer))
    ELSE IF node.kind = "UnorderedListItem"
    THEN end_line(ItemizeChildren(node.children, 1, size, dictionary, current_style,
                      itemize_ast_aux(Text(Bullet(node.level)), size, dictionary,
                                      current_style, buffer)))
    ELSE buffer

\* The indent glue pushed whatever the indent, a glue of width 0 included.
itemize_ast_always_indent(node, size, dictionary, ind) ==
    itemize_ast_aux(node, size, dictionary, Regular, <<Glue(ind, 0, 0)>>)

itemize_ast(node, size, dictionary, ind) ==
    itemize_ast_aux(node, size, dictionary, Regular,
                    IF ind > 0 THEN <<Glue(ind, 0, 0)>> ELSE <<>>)

----------------------------------------------------------------------------
(* The inputs of the optimizer: item streams and line lengths. *)

\* Items a paragraph is made of: two boxes of different widths and fonts, an
\* inter-word glue, a hyphenation penalty whose hyphen has a width, a forced
\* break and a forbidden break.
BodyItems ==
    { BoundingBox(1, Glyph("a", "regular", 10)),
      BoundingBox(2, Glyph("b", "bold", 12)),
      Glue(2, 2, 1),
      Penalty(1, 50, TRUE),
      Penalty(0, NEG_INFINITY, FALSE),
      Penalty(0, PLUS_INFINITY, FALSE) }

SeqsUpTo(S, n) == UNION { [1..k -> S] : k \in 0..n }

\* Item streams that end with the paragraph terminator.
Paragraphs == { end_line(body) : body \in SeqsUpTo(BodyItems, MaxBody) }

LineLengths == {2, 5}

LineLists == SeqsUpTo(LineLengths, MaxLineList)

NoAst == [kind |-> "None", level |-> 0, content |-> <<>>, children |-> <<>>]

AlgorithmStart(its, ll) ==
    /\ items = its
    /\ lines_length = ll
    /\ b = 0
    /\ sum_width = 0
    /\ sum_stretch = 0
    /\ sum_shrink = 0
    /\ graph = EmptyGraph
    /\ lines_best_node = <<>>
    /\ farthest_line = 0
    /\ node_to_remove = <<>>
    /\ feasible = <<>>
    /\ result = <<>>
    /\ lines = <<>>
    /\ legal_breakpoints = <<>>

\* find_legal_breakpoints on the paragraph, as the tests call it.
FindLegalBreakpoints ==
    /\ UNCHANGED documentVars
    /\ pc = "loop"
    /\ b = 0
    /\ legal_breakpoints' = find_legal_breakpoints(items)
    /\ pc' = "legal"
    /\ UNCHANGED <<ast, indent, hyph, items, lines_length, b, sum_width, sum_stretch,
                   sum_shrink, graph, lines_best_node, farthest_line, node_to_remove,
                   feasible, result, lines>>

Init ==
    /\ DocumentStart
    /\ pc = "loop"
    /\ ast = NoAst
    /\ indent = 0
    /\ hyph = {}
    /\ \E its \in Paragraphs, ll \in LineLists : AlgorithmStart(its, ll)

Next == FindLegalBreakpoints \/ AlgorithmStep \/ AlgorithmReturn \/ Positionate

Spec == Init /\ [][Next]_vars

----------------------------------------------------------------------------
(* The inputs of the itemizer: a Paragraph node, an indent, a dictionary. *)

\* The chars texts are made of: a letter and a whitespace.
Chars == {"a", " "}

Texts == SeqsUpTo(Chars, MaxText)

\* What a Paragraph node is given as a child: any text, a dash, and one node of
\* each other kind the itemizer distinguishes.
Children ==
    { Text(t) : t \in Texts }
    \cup { Text(<<DASH_GLYPH>>),
           AstNode("Newline", 0, <<>>, <<>>),
           AstNode("UnorderedList", 0, <<>>, <<>>),
           AstNode("Bold", 0, <<>>, <<Text(<<"a">>)>>),
           AstNode("Italic", 0, <<>>, <<Text(<<"a">>)>>),
           AstNode("File", 0, <<>>, <<Text(<<"a">>)>>),
           AstNode("Title", 0, <<>>, <<Text(<<"a">>)>>),
           AstNode("Paragraph", 0, <<>>, <<>>),
           AstNode("UnorderedListItem", 1, <<>>, <<>>) }

ParagraphNodes == { Paragraph(c) : c \in SeqsUpTo(Children, MaxChildren) }

\* No indent, and the indent of 7.5 pt of the tests.
Indents == {0, 15}

\* What the dictionary answers: no break, or a break after the first glyph of a
\* word.
Dictionaries == { {}, {1} }

FontSize == Pt(10)

\* One length for every line, or none (DEFAULT_LINE_LENGTH).
AstLineLists == { <<>> } \cup { <<l>> : l \in LineLengths }

InitAst ==
    /\ DocumentStart
    /\ pc = "itemize"
    /\ ast \in ParagraphNodes
    /\ indent \in Indents
    /\ hyph \in Dictionaries
    /\ \E ll \in AstLineLists : AlgorithmStart(<<>>, ll)

\* itemize_ast, then the optimizer starts on the paragraph.
Itemize ==
    /\ UNCHANGED documentVars
    /\ pc = "itemize"
    /\ items' = itemize_ast(ast, FontSize, hyph, indent)
    /\ pc' = "loop"
    /\ UNCHANGED <<ast, indent, hyph, lines_length, b, sum_width, sum_stretch,
                   sum_shrink, graph, lines_best_node, farthest_line, node_to_remove,
                   feasible, result, lines, legal_breakpoints>>

NextAst ==
    Itemize \/ FindLegalBreakpoints \/ AlgorithmStep \/ AlgorithmReturn \/ Positionate

SpecAst == InitAst /\ [][NextAst]_vars

----------------------------------------------------------------------------
(* The optimizer on item streams that hold items of negative width. *)

\* Most items of such a paragraph before its two terminating items.
MaxNegBody == 3

\* Boxes, glue and penalties, each of a positive and of a negative width.
NegBodyItems ==
    { BoundingBox(1, Glyph("a", "regular", 10)),
      BoundingBox(0 - 1, Glyph("a", "regular", 10)),
      Glue(2, 2, 1),
      Glue(0 - 2, 2, 1),
      Penalty(1, 50, TRUE),
      Penalty(0 - 1, 50, TRUE) }

NegParagraphs == { end_line(body) : body \in SeqsUpTo(NegBodyItems, MaxNegBody) }

InitNeg ==
    /\ DocumentStart
    /\ pc = "loop"
    /\ ast = NoAst
    /\ indent = 0
    /\ hyph = {}
    /\ \E its \in NegParagraphs, ll \in AstLineLists : AlgorithmStart(its, ll)

NextNeg == FindLegalBreakpoints \/ AlgorithmStep \/ AlgorithmReturn \/ Positionate

SpecNeg == InitNeg /\ [][NextNeg]_vars

----------------------------------------------------------------------------
(* The layout, the counters and the naive justifier, each on its own. *)

\* The paragraph pipeline at rest.
ParagraphIdle ==
    /\ ast = NoAst
    /\ indent = 0
    /\ hyph = {}
    /\ AlgorithmStart(<<>>, <<>>)

InitLayout ==
    /\ pc = "layout"
    /\ ParagraphIdle
    /\ DocumentStart

NextLayout ==
    \/ CurrentColumn
    \/ GetNextColumn
    \/ MoveToNextColumn
    \/ GetNextPage
    \/ GetIthPage
    \/ CreateAndJumpToLastPage
    \/ CreateNewPageAtTheEnd
    \/ GetLineLength

SpecLayout == InitLayout /\ [][NextLayout]_vars

InitCounters ==
    /\ pc = "counters"
    /\ ParagraphIdle
    /\ layout = TwoColumnLayout_new
    /\ ret = NoCall
    /\ counters \in {Counters_new, Counters_default}
    /\ incremented = NoIncrement
    /\ text_width = 0
    /\ justified = <<>>

NextCounters == Increment

SpecCounters == InitCounters /\ [][NextCounters]_vars

InitNaive ==
    /\ pc = "justify"
    /\ ast = NoAst
    /\ indent = 0
    /\ hyph = {}
    /\ \E its \in NaiveParagraphs : AlgorithmStart(its, <<>>)
    /\ layout = TwoColumnLayout_new
    /\ ret = NoCall
    /\ counters = Counters_new
    /\ incremented = NoIncrement
    /\ text_width \in TextWidths
    /\ justified = <<>>

NextNaive == NaiveJustify

SpecNaive == InitNaive /\ [][NextNaive]_vars

----------------------------------------------------------------------------
(* positionate_items on its own: any item stream, any strictly increasing    *)
(* sequence of breakpoints that starts with index 0.                         *)

\* Most items of a paragraph handed to positionate_items, before its terminator.
MaxPosBody == 3

PosParagraphs == { end_line(body) : body \in SeqsUpTo(BodyItems, MaxPosBody) }

\* The strictly increasing sequences of indices of its that start with 0: the
\* elements of a set of indices, in order.
BreakpointLists(its) ==
    LET Ordered(S) == [k \in 1..Cardinality(S) |->
                          CHOOSE x \in S : Cardinality({ y \in S : y < x }) = k - 1]
    IN  { Ordered(S \cup {0}) : S \in SUBSET (1..(Len(its) - 1)) }

InitPos ==
    /\ DocumentStart
    /\ pc = "position"
    /\ ast = NoAst
    /\ indent = 0
    /\ hyph = {}
    /\ items \in PosParagraphs
    /\ lines_length \in AstLineLists
    /\ result \in BreakpointLists(items)
    /\ b = 0
    /\ sum_width = 0
    /\ sum_stretch = 0
    /\ sum_shrink = 0
    /\ graph = EmptyGraph
    /\ lines_best_node = <<>>
    /\ farthest_line = 0
    /\ node_to_remove = <<>>
    /\ feasible = <<>>
    /\ lines = <<>>
    /\ legal_breakpoints = <<>>

NextPos == Positionate

SpecPos == InitPos /\ [][NextPos]_vars

----------------------------------------------------------------------------
(* Reference definitions: the lines of a breakpoint sequence measured item by *)
(* item, independently of the running sums of algorithm.                      *)

\* algorithm has returned
Returned == pc \in {"position", "done", "panic"}

\* The index of the terminating forced penalty.
LastIndex(its) == Len(its) - 1

\* The first item at or after p that is a box or a penalty of cost >= MAX_COST.
RECURSIVE SkipDiscardable(_, _)
SkipDiscardable(its, p) ==
    IF p >= Len(its) THEN p
    ELSE IF IsBox(ItemAt(its, p)) THEN p
    ELSE IF IsPenalty(ItemAt(its, p)) /\ ~FLt(ItemAt(its, p).value, MAX_COST) THEN p
    ELSE SkipDiscardable(its, p + 1)

\* Width, shrink and stretch of the boxes and glue of indices p .. q - 1.
RECURSIVE SumRange(_, _, _)
SumRange(its, p, q) ==
    IF p >= q THEN Measures(0, 0, 0)
    ELSE LET rest == SumRange(its, p + 1, q)
             item == ItemAt(its, p)
         IN  IF IsPenalty(item) THEN rest
             ELSE Measures(rest.width + item.width,
                           FAdd(rest.shrinkability, item.shrinkability),
                           FAdd(rest.stretchability, item.stretchability))

\* The ways of reading "the items of the line between the breaks a and bb":
\* skip says whether the glue and penalties that directly follow the break a are
\* left out of the line, pen whether the width of a penalty chosen as the break bb
\* (the hyphen) counts, first whether the first line is compared with the fitness
\* class 1 of the initial node.
Readings == [skip : BOOLEAN, pen : BOOLEAN, first : BOOLEAN]

\* The adjustment ratio of line number line (0-based), made of the items between
\* the breaks a and bb.
RefRatio(its, ll, a, bb, line, rd) ==
    LET start == IF line = 0 THEN 0
                 ELSE IF rd.skip THEN SkipDiscardable(its, a + 1)
                 ELSE a + 1
        m == SumRange(its, start, bb)
        w == m.width + (IF rd.pen /\ IsPenalty(ItemAt(its, bb))
                        THEN ItemAt(its, bb).width ELSE 0)
    IN  compute_adjustment_ratio(w, get_line_length(ll, line),
                                 m.stretchability, m.shrinkability)

LineFits(its, ll, a, bb, line, rd) == InWindow(RefRatio(its, ll, a, bb, line, rd))

\* The legal breakpoints of section 3: a glue that follows a box, a penalty of
\* cost < +inf.
IsLegalBreak(its, i) ==
    LET item == ItemAt(its, i)
    IN  \/ IsGlue(item) /\ i > 0 /\ IsBox(ItemAt(its, i - 1))
        \/ IsPenalty(item) /\ item.value # PLUS_INFINITY

\* The elements of a set of numbers in increasing order.
RECURSIVE SortedSeq(_)
SortedSeq(S) ==
    IF S = {} THEN <<>>
    ELSE LET m == CHOOSE x \in S : \A y \in S : x <= y
         IN  <<m>> \o SortedSeq(S \ {m})

\* Every sequence 0 = i_0 < i_1 < ... < i_k = terminating penalty of legal breaks.
BreakSequences(its) ==
    LET inner == { i \in 1..(LastIndex(its) - 1) : IsLegalBreak(its, i) }
    IN  { SortedSeq(S \cup {0, LastIndex(its)}) : S \in SUBSET inner }

AllLinesFit(its, ll, bps, rd) ==
    \A j \in 1..(Len(bps) - 1) : LineFits(its, ll, bps[j], bps[j + 1], j - 1, rd)

\* The breakpoint sequences all of whose lines have r in [-1, +10].
FeasibleSequences(its, ll, rd) ==
    { bps \in BreakSequences(its) : AllLinesFit(its, ll, bps, rd) }

\* The demerits of the first j lines of a feasible sequence.
RECURSIVE RefDemerits(_, _, _, _, _)
RefDemerits(its, ll, bps, j, rd) ==
    IF j = 0 THEN DZero
    ELSE LET r == RefRatio(its, ll, bps[j], bps[j + 1], j - 1, rd)
             item == ItemAt(its, bps[j + 1])
             d == compute_demerits(IF IsPenalty(item) THEN item.value ELSE 0, Badness(r))
             previous == IF j = 1 THEN 1
                         ELSE compute_fitness(
                                  RefRatio(its, ll, bps[j - 1], bps[j], j - 2, rd))
             adjacency == IF (j > 1 \/ rd.first)
                             /\ Abs(compute_fitness(r) - previous) > 1
                          THEN ADJACENT_LOOSE_TIGHT_PENALTY ELSE 0
         IN  DAdd(RefDemerits(its, ll, bps, j - 1, rd),
                  DAdd(d, DInt(adjacency)))

TotalDemerits(its, ll, bps, rd) == RefDemerits(its, ll, bps, Len(bps) - 1, rd)

----------------------------------------------------------------------------
(* Claims about algorithm. *)

\* C1: whenever algorithm returns a non-empty breakpoint sequence, its last
\* element is the index of the terminating forced penalty, items.len() - 1.
C1_LastIsTerminator ==
    Returned /\ result # <<>> => result[Len(result)] = LastIndex(items)

\* C2: if some sequence of legal breakpoints from 0 to the terminating penalty has
\* every line with r in [-1, +10], algorithm returns such a sequence.  Stated for
\* the reading most favourable to the code: a state violates it only when the
\* claim fails under every reading of the line's items.
C2_ReturnsFeasible ==
    Returned =>
        \E rd \in Readings :
            FeasibleSequences(items, lines_length, rd) # {}
                => result \in FeasibleSequences(items, lines_length, rd)

\* C3: the returned sequence has minimal total demerits among the sequences whose
\* every line has r in [-1, +10] (again under the most favourable reading).
C3_MinimalDemerits ==
    Returned =>
        \E rd \in Readings :
            \A bps \in FeasibleSequences(items, lines_length, rd) :
                /\ result \in FeasibleSequences(items, lines_length, rd)
                /\ ~DLt(TotalDemerits(items, lines_length, bps, rd),
                        TotalDemerits(items, lines_length, result, rd))

\* C4: every line of the returned sequence fits: the adjustment ratio of the items
\* between two consecutive breaks lies in [-1, +10] (under some reading).
C4_LinesFit ==
    Returned =>
        \A j \in 1..(Len(result) - 1) :
            \E rd \in Readings :
                LineFits(items, lines_length, result[j], result[j + 1], j - 1, rd)

\* C5: a forced break is always chosen: a returned sequence that contains an index
\* greater than the index f of a penalty of cost -inf also contains f.
C5_ForcedBreakChosen ==
    Returned =>
        \A f \in 0..LastIndex(items) :
            is_forced_break(ItemAt(items, f))
            /\ (\E k \in 1..Len(result) : result[k] > f)
                => \E k \in 1..Len(result) : result[k] = f

----------------------------------------------------------------------------
(* Claims about find_legal_breakpoints, positionate_items and itemize_ast. *)

\* The elements of a sequence.
Range(f) == { f[i] : i \in DOMAIN f }

\* C6: the set of indices returned by find_legal_breakpoints is {0}, the glue that
\* directly follow a box, and the penalties of cost < +inf.
C6_LegalBreakpoints ==
    pc = "legal" =>
        Range(legal_breakpoints) =
            {0}
            \cup { i \in 1..LastIndex(items) :
                     IsGlue(ItemAt(items, i)) /\ IsBox(ItemAt(items, i - 1)) }
            \cup { i \in 0..LastIndex(items) :
                     IsPenalty(ItemAt(items, i))
                     /\ ItemAt(items, i).value # PLUS_INFINITY }

\* find_legal_breakpoints has run on a paragraph with a forbidden break, a glue
\* that follows a box, and a glue that follows a glue.
C6_Witness ==
    /\ pc = "legal"
    /\ \E i \in 0..LastIndex(items) :
           IsPenalty(ItemAt(items, i)) /\ ItemAt(items, i).value = PLUS_INFINITY
    /\ \E i \in 1..LastIndex(items) :
           /\ IsGlue(ItemAt(items, i)) /\ IsBox(ItemAt(items, i - 1))
           /\ i \in Range(legal_breakpoints)
    /\ \E i \in 1..LastIndex(items) :
           /\ IsGlue(ItemAt(items, i)) /\ IsGlue(ItemAt(items, i - 1))
           /\ i \notin Range(legal_breakpoints)

\* The horizontal offset reached at the end of line k (1-based) of lines.
Advance(k) == PositionLine(items, lines_length, result, k - 1).x

\* One fine unit, 1 / 65536 pt, in half points.
FineUnit == <<1, 32768>>

WithinFineUnit(x, length) ==
    /\ RIsFinite(x)
    /\ RLe(RAbs(RAdd(x, RInt(0 - length))), FineUnit)

\* C7: on every line but the last that positionate_items produces from the
\* sequence algorithm returned, the advanced widths sum to the length of the line,
\* within one fine unit.
C7_InteriorLinesFilled ==
    pc = "done" =>
        \A k \in 1..(Len(lines) - 1) :
            WithinFineUnit(Advance(k), get_line_length(lines_length, k - 1))

\* C8: a line that ends at a penalty of positive width carries, after its boxes,
\* a hyphen glyph with the font and size of the preceding box.
C8_HyphenEmitted ==
    pc = "done" =>
        \A k \in 1..Len(lines) :
            LET bp == result[k + 1]
                line == lines[k]
            IN  IsPenalty(ItemAt(items, bp)) /\ ItemAt(items, bp).width > 0
                    => /\ Len(line) >= 1
                       /\ line[Len(line)].index = bp
                       /\ line[Len(line)].glyph.glyph = DASH_GLYPH
                       /\ Len(line) >= 2 =>
                              /\ line[Len(line)].glyph.font
                                     = line[Len(line) - 1].glyph.font
                              /\ line[Len(line)].glyph.scale
                                     = line[Len(line) - 1].glyph.scale

\* itemize_ast has returned
Itemized == pc # "itemize"

\* C9: the stream emitted for a Paragraph node ends with the glue (0, +inf, 0)
\* followed by the unflagged penalty of width 0 and cost -inf.
C9_Terminator ==
    Itemized =>
        /\ Len(items) >= 2
        /\ items[Len(items) - 1] = Glue(0, PLUS_INFINITY, 0)
        /\ items[Len(items)] = Penalty(0, NEG_INFINITY, FALSE)

\* A paragraph with an indent, a hyphenated word, a dash and a nested node that
\* ends a line of its own has been itemized.
C9_Witness ==
    /\ Itemized
    /\ indent > 0
    /\ Len(ast.children) = MaxChildren
    /\ \E i \in 1..(Len(items) - 2) : items[i] = Penalty(0, NEG_INFINITY, FALSE)
    /\ \E i \in 1..(Len(items) - 2) : items[i] = Penalty(0, 50, TRUE)
    /\ \E i \in 1..(Len(items) - 2) : IsBox(items[i])

\* C10: a Paragraph node with no children and no indent itemizes to exactly
\* [glue (0, +inf, 0), penalty -inf], and algorithm returns [0, 1] on it for
\* every positive line length.
C10_EmptyParagraph ==
    ast = Paragraph(<<>>) /\ indent = 0 =>
        /\ Itemized => items = <<Glue(0, PLUS_INFINITY, 0),
                                 Penalty(0, NEG_INFINITY, FALSE)>>
        /\ Returned => result = <<0, 1>>

\* algorithm has returned on the empty paragraph, for a line length taken from
\* the list.
C10_Witness ==
    /\ ast = Paragraph(<<>>)
    /\ indent = 0
    /\ Returned
    /\ lines_length # <<>>

----------------------------------------------------------------------------
(* Reference definitions for the layout: the columns that follow the cursor, *)
(* in reading order, and the lines each of them holds.                       *)

\* The cursor designates a column of a page of the layout.
CursorValid(lay) ==
    /\ lay.current_page_index < Len(lay.pages)
    /\ PageCursorValid(PageAt(lay, lay.current_page_index))

\* The columns of page p: its own, or those of the template when it is yet to
\* be created.
ColumnsOfPage(lay, p) == IF p < Len(lay.pages) THEN PageAt(lay, p).columns ELSE get_columns_layout

\* The column lines start in on page p: the cursor's on the current page, the
\* first one on the pages that follow.
FirstColumnOfPage(lay, p) ==
    IF p = lay.current_page_index THEN PageAt(lay, p).current_column_index ELSE 0

\* The lines a column holds below its vertical position.
LinesIn(column, properties) ==
    (column.height - column.current_vertical_position + properties.line_skip)
        \div (properties.line_height + properties.line_skip)

RECURSIVE LandingColumn(_, _, _, _)
\* The column line l lands in, counting from column c of page p.
LandingColumn(lay, p, c, l) ==
    IF c >= Len(ColumnsOfPage(lay, p)) THEN LandingColumn(lay, p + 1, 0, l)
    ELSE LET column == ColumnsOfPage(lay, p)[c + 1]
         IN  IF l < LinesIn(column, lay.properties) THEN column
             ELSE LandingColumn(lay, p, c + 1, l - LinesIn(column, lay.properties))

LandingColumnFromCursor(lay, l) ==
    LandingColumn(lay, lay.current_page_index, FirstColumnOfPage(lay, lay.current_page_index), l)

\* The oracle was asked from the cursor, which designated a column.
OracleAsked ==
    /\ ret.op = "get_line_length_from_current_position"
    /\ ret.args[1] = 0
    /\ CursorValid(ret.before)

\* C11: asked line offset l from the current cursor, the line-length oracle
\* returns the width of the column line l lands in when lines are stacked at
\* line height + line skip through the columns of the page, then through the
\* columns of the next pages, those of the template for a page yet to be created.
C11_OracleWidth ==
    OracleAsked =>
        /\ ~ret.panic
        /\ LET landing == LandingColumnFromCursor(ret.before, ret.args[2])
           IN  ret.value.width = landing.width

\* C12: no layout operation moves a cursor backward: from a state to the next,
\* the current page index of the layout does not decrease, and neither does the
\* current column index of any page.
C12_CursorsMonotone ==
    [][/\ layout'.current_page_index >= layout.current_page_index
       /\ \A p \in 1..Len(layout.pages) :
              layout'.pages[p].current_column_index >= layout.pages[p].current_column_index]_vars

\* get_next_page was called with the cursor on a page of the layout.
NextPageAsked ==
    /\ ret.op = "get_next_page"
    /\ ret.before.current_page_index < Len(ret.before.pages)

\* C18: get_next_page returns the page directly after the current page, creating
\* it when it does not exist: a page is always returned, and it is the page the
\* cursor now designates, one past the page it designated.
C18_NextPageReturned ==
    NextPageAsked =>
        /\ ~ret.panic
        /\ layout.current_page_index = ret.before.current_page_index + 1
        /\ layout.current_page_index < Len(layout.pages)
        /\ ret.value.page = Some(PageAt(layout, layout.current_page_index))

\* get_next_column or move_to_next_column was called with the cursor on a column:
\* Page::get_next_column has run on the page the cursor designated.
PageStepped ==
    /\ ret.op \in {"get_next_column", "move_to_next_column"}
    /\ CursorValid(ret.before)

\* The page Page::get_next_column ran on, before and after the call.
SteppedPageBefore == PageAt(ret.before, ret.before.current_page_index)

SteppedPageAfter == PageAt(layout, ret.before.current_page_index)

\* C19: on a page of n >= 1 columns whose current column is column c,
\* Page::get_next_column moves the cursor of the page to c + 1 and returns column
\* c + 1 while c is not the last column, and None when c is the last column.
C19_PageNextColumn ==
    PageStepped =>
        LET page == SteppedPageBefore
            n == Len(page.columns)
            c == page.current_column_index
            got == Page_get_next_column(page)
        IN  /\ n >= 1
            /\ got.page = SteppedPageAfter
            /\ SteppedPageAfter.current_column_index = c + 1
            /\ c + 1 < n => got.column = Some(page.columns[c + 2])
            /\ c + 1 = n => got.column = None
            /\ (c + 1 < n /\ ret.op = "get_next_column") => ret.value.column = got.column

\* Page::get_next_column has returned None on the two-column page, whose cursor
\* it had moved to the second column before.
C19_Witness ==
    /\ PageStepped
    /\ Len(SteppedPageBefore.columns) = 2
    /\ SteppedPageBefore.current_column_index = 1
    /\ SteppedPageAfter.current_column_index = 2
    /\ layout.current_page_index = ret.before.current_page_index + 1

\* C15: Counters::increment(k) adds 1 to counter k and returns it, leaves every
\* counter j < k as it was, and makes counter(j) 0 for every j > k.
C15_Increment ==
    incremented.called =>
        LET k == incremented.counter_id
        IN  /\ counter(counters, k) = counter(incremented.before, k) + 1
            /\ incremented.value = counter(counters, k)
            /\ \A j \in 0..(MaxCounterId + 1) :
                   /\ j > k => counter(counters, j) = 0
                   /\ j < k => counter(counters, j) = counter(incremented.before, j)

\* Counter 1 was incremented while counters 0, 1 and 2 were all positive.
C15_Witness ==
    /\ incremented.called
    /\ incremented.counter_id = 1
    /\ \A j \in 0..2 : counter(incremented.before, j) > 0

\* The paragraph is one word, a run of boxes, followed by the terminator, and the
\* word is wider than the length of every line.
SingleWideWord ==
    /\ Len(items) >= 3
    /\ \A i \in 1..(Len(items) - 2) : IsBox(items[i])
    /\ items[Len(items) - 1] = TerminatorGlue
    /\ items[Len(items)] = TerminatorPenalty
    /\ \A l \in 0..Len(items) :
           get_line_length(lines_length, l) < WidthOf(SubSeq(items, 1, Len(items) - 2))

C20_LineLengthDefault ==
    \A index \in 0..(MaxLineList + 1) :
        get_line_length(lines_length, index) =
            IF index < Len(lines_length) THEN lines_length[index + 1] ELSE DEFAULT_LINE_LENGTH

\* Some item of the paragraph has a negative width.
SomeNegativeWidth == \E i \in 1..Len(items) : items[i].width < 0

\* C14: if any item of the paragraph, of any kind and at any position, has a
\* negative width, algorithm returns no breakpoint sequence: it runs through the
\* items that precede the first such item, then aborts on it.
C14_NegativeWidthAborts ==
    SomeNegativeWidth =>
        /\ pc \in {"loop", "legal", "panic"}
        /\ result = <<>>
        /\ pc = "loop" => \A i \in 1..b : items[i].width >= 0
        /\ pc = "panic" => /\ b < Len(items)
                           /\ ItemAt(items, b).width < 0
                           /\ \A i \in 1..b : items[i].width >= 0

\* algorithm has aborted on a glue of negative width that follows a box and a
\* penalty of positive width.
C14_Witness ==
    /\ pc = "panic"
    /\ b = 2
    /\ IsBox(items[1])
    /\ IsPenalty(items[2])
    /\ IsGlue(items[3])
    /\ items[3].width < 0

\* The words of the Text children of the paragraph node that are one word long:
\* their chars as the glyphs itemize_ast_aux hands to add_word_to_paragraph.
WordsOfAst ==
    { [k \in 1..Len(child.content) |-> Glyph(child.content[k], for_style(Regular), FontSize)] :
        child \in { c \in Range(ast.children) :
                      /\ c.kind = "Text"
                      /\ c.content # <<>>
                      /\ \A k \in 1..Len(c.content) : ~is_whitespace(c.content[k]) } }

\* C17: whatever the word and the break positions the dictionary answers, every
\* penalty add_word_to_paragraph emits stands between two boxes of the word:
\* none comes before the first box, none after the last.
C17_PenaltiesInsideWord ==
    \A word \in WordsOfAst :
        LET out == add_word_to_paragraph(word, hyph, <<>>)
        IN  \A i \in 1..Len(out) :
                IsPenalty(out[i]) =>
                    /\ 1 < i /\ i < Len(out)
                    /\ IsBox(out[i - 1])
                    /\ IsBox(out[i + 1])

----------------------------------------------------------------------------
(* Reference definitions for the naive justifier: the words of a paragraph   *)
(* and the first item whose addition makes the running width pass the text   *)
(* width.                                                                    *)

\* The running width after the first k items: boxes and glue count, penalties
\* do not.
RunningWidth(its, k) ==
    WidthOf(SelectSeq(SubSeq(its, 1, k), LAMBDA item : ~IsPenalty(item)))

\* The number of glue items among the first k items: the words completed.
GluesBefore(its, k) == Len(SelectSeq(SubSeq(its, 1, k), IsGlue))

\* The first item whose addition makes the running width exceed the width, 0 if
\* there is none.
FirstOverflow(its, width) ==
    IF \E k \in 1..Len(its) : RunningWidth(its, k) > width
    THEN CHOOSE k \in 1..Len(its) :
             /\ RunningWidth(its, k) > width
             /\ \A j \in 1..(k - 1) : RunningWidth(its, j) <= width
    ELSE 0

\* The position of the last glue before item k, 0 if there is none: the word of
\* item k starts after it.
LastGlueBefore(its, k) ==
    IF \E j \in 1..(k - 1) : IsGlue(its[j])
    THEN CHOOSE j \in 1..(k - 1) : IsGlue(its[j]) /\ \A i \in (j + 1)..(k - 1) : ~IsGlue(its[i])
    ELSE 0

\* The glyphs of the boxes among the first k items.
GlyphsBefore(its, k) ==
    LET boxes == SelectSeq(SubSeq(its, 1, k), IsBox)
    IN  [i \in 1..Len(boxes) |-> boxes[i].glyph]

GlyphsOfLine(line) == [i \in 1..Len(line) |-> line[i].glyph]

\* The paragraph starts with a box and has no two glue items in a row: every
\* word holds a box.
WordsHoldBoxes ==
    /\ IsBox(items[1])
    /\ \A i \in 1..(Len(items) - 1) : ~(IsGlue(items[i]) /\ IsGlue(items[i + 1]))

\* The first overflow happens on a box, after two words or more were completed:
\* the box belongs to the overflowing word, and a line is committed.
OverflowOnBox ==
    /\ pc = "justified"
    /\ WordsHoldBoxes
    /\ FirstOverflow(items, text_width) > 0
    /\ IsBox(items[FirstOverflow(items, text_width)])
    /\ GluesBefore(items, FirstOverflow(items, text_width)) > 1

\* C16: when adding an item makes the running width exceed the text width, the
\* line committed is made of the words that precede the overflowing word, and the
\* next line starts with the overflowing word.  Stated on the first overflow of
\* the paragraph, when it happens on a box: the first line holds the glyphs of all
\* the boxes before the word of that box, and the second line starts with the
\* first glyph of that word.
C16_NaiveCommit ==
    OverflowOnBox =>
        LET k == FirstOverflow(items, text_width)
            start == LastGlueBefore(items, k)
        IN  /\ Len(justified) >= 2
            /\ GlyphsOfLine(justified[1]) = GlyphsBefore(items, start)
            /\ justified[2] # <<>>
            /\ justified[2][1].glyph = items[start + 1].glyph

----------------------------------------------------------------------------
(* Reference definitions for the graph of algorithm: the running sums replayed *)
(* from the items, and the nodes of the path algorithm returns.                *)

\* The sums of algorithm when its loop reaches item bi: the loop body of
\* engine.rs:61-84 and 175-183 run on the items before bi.
RECURSIVE SumsBefore(_, _)
SumsBefore(its, bi) ==
    IF bi = 0 THEN Measures(0, 0, 0)
    ELSE LET before == SumsBefore(its, bi - 1)
             item == ItemAt(its, bi - 1)
             sums == SumsAtBreak(its, bi - 1, before.width, before.stretchability,
                                 before.shrinkability)
         IN  IF CanBreak(its, bi - 1) /\ IsGlue(item)
             THEN Measures(sums.width + item.width,
                           FAdd(sums.shrinkability, item.shrinkability),
                           FAdd(sums.stretchability, item.stretchability))
             ELSE sums

\* The sums the active nodes are examined with at the break bi.
SumsAt(its, bi) ==
    LET before == SumsBefore(its, bi)
    IN  SumsAtBreak(its, bi, before.width, before.stretchability, before.shrinkability)

\* The replayed sums are the sums the loop holds.
SumsReplayed ==
    pc = "loop" => SumsBefore(items, b) = Measures(sum_width, sum_shrink, sum_stretch)

\* The node ids from the first node to node n, along the edges.
RECURSIVE WalkIds(_, _)
WalkIds(g, n) == IF n = 0 THEN <<>> ELSE Append(WalkIds(g, Parent(g, n)), n)

\* The nodes of the sequence algorithm returns.
ReturnedPath ==
    IF farthest_line \in DOMAIN lines_best_node
    THEN WalkIds(graph, lines_best_node[farthest_line][2])
    ELSE <<>>

\* The adjustment ratio algorithm computed when it created node n: that of the
\* line from the parent of n to the break of n.
OptimizerRatio(g, its, ll, n) ==
    NodeRatio(g.nodes[Parent(g, n)], SumsAt(its, g.nodes[n].index), ll)

\* C21: for every line of the sequence algorithm returns, the adjustment ratio
\* compute_adjustment_ratios_with_breakpoints recomputes for the line, before it
\* is clamped at -1, is the adjustment ratio algorithm computed for the line when
\* it created the node of the line's break.
C21_RatiosAgree ==
    Returned /\ result # <<>> =>
        \A k \in 1..(Len(result) - 1) :
            compute_adjustment_ratios_with_breakpoints(items, lines_length, result)[k]
                = OptimizerRatio(graph, items, lines_length, ReturnedPath[k + 1])

\* The width of the penalties of indices p .. q - 1.
RECURSIVE PenaltyWidths(_, _, _)
PenaltyWidths(its, p, q) ==
    IF p >= q THEN 0
    ELSE (IF IsPenalty(ItemAt(its, p)) THEN ItemAt(its, p).width ELSE 0)
             + PenaltyWidths(its, p + 1, q)

\* The totals of a node at break bi, measured item by item: the boxes and glue
\* before bi, then every item from bi up to the next box or penalty of cost
\* >= MAX_COST, each with its own measures; pen says whether the width of a
\* penalty is one of its measures.
TotalsAt(its, bi, pen) ==
    LET stop == SkipDiscardable(its, bi)
        m == SumRange(its, 0, stop)
    IN  Measures(m.width + (IF pen THEN PenaltyWidths(its, bi, stop) ELSE 0),
                 m.shrinkability, m.stretchability)

\* The totals a node stores.
TotalsOf(node) == Measures(node.total_width, node.total_shrink, node.total_stretch)

\* C22: the totals stored in a node created at break b are the running width,
\* stretch and shrink of all items before b plus the width, stretch and shrink of
\* each item from b up to, but not including, the next box (or the next penalty
\* of cost >= 1000), each counted once with its own measures.
C22_LookAheadTotals ==
    \A n \in 2..Len(graph.nodes) :
        \E pen \in BOOLEAN :
            TotalsOf(graph.nodes[n]) = TotalsAt(items, graph.nodes[n].index, pen)

\* The candidates of line number l among the feasible breakpoints of the last
\* break examined, in the order they were generated.
CandidatesOfLine(l) == SelectSeq(feasible, LAMBDA f : f.node.line = l)

\* The nodes the graph holds for line number l at the last break examined.
SuccessorsKept(l) ==
    { n \in 2..Len(graph.nodes) :
        /\ graph.nodes[n].index = feasible[1].node.index
        /\ graph.nodes[n].line = l }

\* The candidate k of c has the least demerits, and is the first to have them.
FirstOfLeastDemerits(c, k) ==
    /\ \A j \in 1..Len(c) : ~DLt(c[j].node.total_demerits, c[k].node.total_demerits)
    /\ \A j \in 1..(k - 1) : DLt(c[k].node.total_demerits, c[j].node.total_demerits)

\* C23: at every legal break b, for each line number l for which some active node
\* yields a candidate with r in [-1, +10], algorithm keeps one successor node
\* (b, l), the candidate of minimum cumulative demerits among those of line
\* number l, the first generated among equals.
C23_OneSuccessorPerLine ==
    feasible # <<>> =>
        \A l \in { feasible[k].node.line : k \in 1..Len(feasible) } :
            /\ Cardinality(SuccessorsKept(l)) = 1
            /\ \E k \in 1..Len(CandidatesOfLine(l)) :
                   /\ FirstOfLeastDemerits(CandidatesOfLine(l), k)
                   /\ \A n \in SuccessorsKept(l) :
                          /\ graph.nodes[n] = CandidatesOfLine(l)[k].node
                          /\ Parent(graph, n) = CandidatesOfLine(l)[k].parent

\* The demerits of the line of candidate f, from its parent a to its break: those
\* of the penalty of the break and of the badness |r|^3, and the penalty of 50
\* when adjacent says so.
DemeritsOfLine(f, r, adjacent) ==
    LET item == ItemAt(items, f.node.index)
        d == compute_demerits(IF IsPenalty(item) THEN item.value ELSE 0, Badness(r))
    IN  IF adjacent THEN DAdd(d, DInt(ADJACENT_LOOSE_TIGHT_PENALTY)) ELSE d

\* The candidate number k of the last break examined was given the demerits of
\* its line, with the penalty of 50 exactly when the fitness class of the line
\* differs by more than 1 from the class stored in its parent.
CandidateDemerits(k) ==
    LET f == feasible[k]
        a == graph.nodes[f.parent]
        r == NodeRatio(a, SumsAt(items, f.node.index), lines_length)
    IN  f.node.total_demerits =
            DAdd(a.total_demerits,
                 DemeritsOfLine(f, r, Abs(compute_fitness(r) - a.fitness) > 1))

\* C24: for every candidate line from a node a, the initial node (fitness class
\* 1) included, to a break b, the demerits added to the cumulative demerits of a
\* are d(p, |r|^3) plus 50 exactly when the fitness class of the new line differs
\* from the fitness class stored in a by more than 1, and d(p, |r|^3) otherwise.
C24_AdjacentFitnessPenalty == \A k \in 1..Len(feasible) : CandidateDemerits(k)

\* The same for the candidates whose parent is a node of index > 0.
AdjacentFitnessPenaltyPastIndex0 ==
    \A k \in 1..Len(feasible) :
        graph.nodes[feasible[k].parent].index > 0 => CandidateDemerits(k)

----------------------------------------------------------------------------
(* Claims about what algorithm returns and what positionate_items makes of it. *)

\* algorithm returned no breakpoint and positionate_items was called on it.
PositionedEmpty == pc \in {"done", "panic"} /\ result = <<>>

\* C25: when algorithm returns the empty breakpoint sequence, positionate_items
\* completes without failure and returns an empty list of lines.
C25_EmptyResultTolerated ==
    PositionedEmpty => pc = "done" /\ lines = <<>>

\* C26: every non-empty sequence algorithm returns starts with index 0, is
\* strictly increasing, and each of its elements after the first is a legal
\* breakpoint of the paragraph: never a box, never a penalty of cost +inf, never
\* a glue that does not directly follow a box.
C26_ReturnedBreaksLegal ==
    Returned /\ result # <<>> =>
        /\ result[1] = 0
        /\ \A k \in 1..(Len(result) - 1) : result[k] < result[k + 1]
        /\ \A k \in 2..Len(result) :
               /\ result[k] <= LastIndex(items)
               /\ IsLegalBreak(items, result[k])

\* algorithm has returned two lines or more, one of which ends at a glue, on a
\* paragraph that holds a forbidden break and a glue that follows no box.
C26_Witness ==
    /\ Returned
    /\ Len(result) >= 3
    /\ \E i \in 1..Len(items) : IsPenalty(items[i]) /\ items[i].value = PLUS_INFINITY
    /\ \E i \in 1..(Len(items) - 2) : IsGlue(items[i]) /\ (i = 1 \/ ~IsBox(items[i - 1]))
    /\ \E k \in 2..(Len(result) - 1) : IsGlue(ItemAt(items, result[k]))

----------------------------------------------------------------------------
(* Claims about the layout after a call. *)

\* The oracle has returned a width.
OracleReturned ==
    /\ ret.op = "get_line_length_from_current_position"
    /\ ~ret.panic

\* The same call made again on the layout the first call left.
OracleAgain == get_line_length_from_current_position(layout, ret.args[1], ret.args[2])

\* C27: the line-length oracle is idempotent: a second call with the same column
\* index and line offset, with no cursor movement in between, returns the same
\* column width, also when the first call had to create a new page.
C27_OracleIdempotent ==
    OracleReturned =>
        /\ ~OracleAgain.panic
        /\ OracleAgain.value = ret.value.width

\* The same for the calls that created no page.
OracleIdempotentWithoutNewPage ==
    OracleReturned /\ Len(layout.pages) = Len(ret.before.pages) =>
        /\ ~OracleAgain.panic
        /\ OracleAgain.value = ret.value.width

\* C28: after any sequence of layout and page operations the cursor designates an
\* existing column: current_page_index < pages.len() and the current page's
\* current_column_index < columns.len(), so that current_column and
\* Page::get_current_column do not fail.
C28_CursorDesignatesColumn ==
    ~ret.panic =>
        /\ layout.current_page_index < Len(layout.pages)
        /\ PageAt(layout, layout.current_page_index).current_column_index
               < Len(PageAt(layout, layout.current_page_index).columns)
        /\ ~current_column(layout).panic

\* The breakpoints after the first designate glue or penalties.
BreaksAtNonBoxes == \A k \in 2..Len(result) : ~IsBox(ItemAt(items, result[k]))

\* The indices of the boxes of the items p .. q - 1, in order.
BoxesBetween(its, p, q) ==
    SelectSeq([i \in 1..(q - p) |-> p + i - 1], LAMBDA i : IsBox(ItemAt(its, i)))

\* The indices of the boxes positioned on a line, in the order of the line.
BoxesOfLine(line) ==
    LET boxes == SelectSeq(line, LAMBDA e : IsBox(ItemAt(items, e.index)))
    IN  [q \in 1..Len(boxes) |-> boxes[q].index]

\* C29: for every item stream and every strictly increasing breakpoint sequence
\* [0, ..., b_k] of non-box items, positionate_items returns exactly k lines, in
\* which every box of index lower than b_k appears exactly once, in paragraph
\* order, on the line j whose breakpoints b_j and b_j+1 enclose it.
C29_BoxesPositionedOnce ==
    Len(result) >= 1 /\ BreaksAtNonBoxes /\ pc \in {"done", "panic"} =>
        /\ pc = "done"
        /\ Len(lines) = Len(result) - 1
        /\ \A j \in 1..Len(lines) :
               /\ BoxesOfLine(lines[j]) = BoxesBetween(items, result[j], result[j + 1])
               /\ \A q \in 1..Len(lines[j]) :
                      IsBox(ItemAt(items, lines[j][q].index)) =>
                          /\ lines[j][q].glyph = ItemAt(items, lines[j][q].index).glyph
                          /\ lines[j][q].line = j - 1

\* positionate_items has returned two lines or more from a paragraph that
\* starts with a box: one line holds two boxes, one line none, and the sequence
\* stops before the last item.
C29_Witness ==
    /\ pc = "done"
    /\ BreaksAtNonBoxes
    /\ IsBox(items[1])
    /\ Len(lines) >= 2
    /\ \E j \in 1..Len(lines) : Len(BoxesOfLine(lines[j])) >= 2
    /\ \E j \in 1..Len(lines) : lines[j] = <<>>
    /\ result[Len(result)] < LastIndex(items)

----------------------------------------------------------------------------
(* Claims about the glyphs the naive justifier emits. *)

\* The paragraph ends with the terminating glue and penalty.
Terminated ==
    /\ Len(items) >= 2
    /\ items[Len(items) - 1] = TerminatorGlue
    /\ items[Len(items)] = TerminatorPenalty

\* C30: for every paragraph that ends with the terminating glue and penalty,
\* NaiveJustifier::justify emits every box glyph of the paragraph exactly once, in
\* paragraph order across the concatenated output lines: no glyph is lost or
\* duplicated when a word is carried over to the next line.
C30_NaiveKeepsGlyphs ==
    pc = "justified" /\ Terminated =>
        GlyphsOfLine(Flatten(justified)) = GlyphsBefore(items, Len(items))

\* The naive justifier has committed a line when a box, in the middle of a word
\* that follows two completed words, made the running width pass the text
\* width: a word was carried over to the next line.
C30_Witness ==
    /\ OverflowOnBox
    /\ Terminated
    /\ Len(justified) >= 2

====
